---- MODULE Spec2Model ----
(***************************************************************************)
(* Familienpass tools: the scraper's grouping and sheet export             *)
(* (src/scraper.py), the sign-up window parser and the calendar export     *)
(* (src/create_calendar.py) and the reminder export                        *)
(* (src/create_reminder.py).                                               *)
(*                                                                         *)
(* Python str values are TLA+ strings; the operators below compute on      *)
(* their characters the way the str methods the code calls do.  None and   *)
(* the empty tuple are the empty sequence << >>.                           *)
(***************************************************************************)
EXTENDS Integers, Sequences, FiniteSets, TLC

VARIABLES
    date_str,        \* create_calendar.parse_date_range: its argument
    date_range,      \* create_calendar.parse_date_range: << >> before the call, then <<result>>
    events_data,     \* scraper.main: the scraped occurrences, in listing order
    grouped_events,  \* scraper.save_to_excel: the rows group_events_by_name returned
    selections,      \* scraper.main: existing_selections, name -> Selected value
    loaded_ws,       \* scraper.load_existing_selections: the data rows of the sheet it read
    saved_ws,        \* scraper.save_to_excel: the data rows of the workbook it saved
    sheet,           \* the file output/familienpass_events.xlsx: its data rows, << >> if it does not exist
    calendar,        \* the file output/familienpass_calendar.ics: its entries, << >> if it does not exist
    cal_run,         \* create_calendar_events, latest run: << >> or <<[sheet read, events added, events_skipped]>>
    cal_prev,        \* create_calendar_events, the run before the latest
    reminders,       \* read_selected_events, latest run: << >> or <<[sheet read, events returned]>>
    now,             \* datetime.now(), in calendar export runs
    edits,           \* Selected cells the user has typed into so far
    scrapes,         \* scraper runs that have saved a sheet so far
    responses,       \* utils.make_request_with_retry: what the server does at each GET
    attempt,         \* utils.make_request_with_retry: the loop variable
    gets,            \* utils.make_request_with_retry: the GET requests made
    waits,           \* utils.make_request_with_retry: the time.sleep calls, in order
    request_result,  \* utils.make_request_with_retry: "pending", "returned" or "raised"
    listing_pages,   \* scraper.get_all_event_urls: what each listing page gives
    page_num,        \* scraper.get_all_event_urls: the loop variable
    attempted,       \* scraper.get_all_event_urls: the pages requested, in order
    all_events,      \* scraper.get_all_event_urls: the pairs (event_url, date) collected
    detail_outcomes, \* scraper.main: what happened on each detail page scraped
    pc,              \* scraper.main: where the run is
    exit_status      \* the exit status of each program: << >> until it has ended

\* The variables of the request, of the listing and of the runs of the programs.
run_vars == <<responses, attempt, gets, waits, request_result, listing_pages, page_num,
              attempted, all_events, detail_outcomes, pc, exit_status>>

vars == <<date_str, date_range, events_data, grouped_events, selections, loaded_ws,
          saved_ws, sheet, calendar, cal_run, cal_prev, reminders, now, edits, scrapes,
          run_vars>>

NoExit == [scraper |-> << >>, calendar |-> << >>, reminder |-> << >>]

\* No request, no listing and no program is under way.
RunIdle ==
    /\ responses = << >>
    /\ attempt = 0
    /\ gets = 0
    /\ waits = << >>
    /\ request_result = "pending"
    /\ listing_pages = << >>
    /\ page_num = 1
    /\ attempted = << >>
    /\ all_events = << >>
    /\ detail_outcomes = << >>
    /\ pc = "start"
    /\ exit_status = NoExit

(***************************************************************************)
(* Python str operations                                                   *)
(***************************************************************************)
Char(s, i) == SubSeq(s, i, i)

Digits == "0123456789"

\* Printable ASCII in code point order: U+0020..U+005F, and U+0061..U+007E.
AsciiLow == " !\"#$%&'()*+,-./0123456789:;<=>?@ABCDEFGHIJKLMNOPQRSTUVWXYZ[\\]^_"

AsciiHigh == "abcdefghijklmnopqrstuvwxyz{|}~"

UpperCase == "ABCDEFGHIJKLMNOPQRSTUVWXYZ"

LowerCase == "abcdefghijklmnopqrstuvwxyz"

IsDigit(c) == \E i \in 1..Len(Digits) : Char(Digits, i) = c

DigitVal(c) == (CHOOSE i \in 1..Len(Digits) : Char(Digits, i) = c) - 1

\* ord(c): the code point; a character outside ASCII sorts above all of ASCII.
Ord(c) ==
    IF \E i \in 1..Len(AsciiLow) : Char(AsciiLow, i) = c
    THEN 31 + (CHOOSE i \in 1..Len(AsciiLow) : Char(AsciiLow, i) = c)
    ELSE IF \E i \in 1..Len(AsciiHigh) : Char(AsciiHigh, i) = c
    THEN 96 + (CHOOSE i \in 1..Len(AsciiHigh) : Char(AsciiHigh, i) = c)
    ELSE 8599

RECURSIVE ToInt(_)
\* int(s) for a string of digits
ToInt(s) ==
    IF s = "" THEN 0
    ELSE 10 * ToInt(SubSeq(s, 1, Len(s) - 1)) + DigitVal(Char(s, Len(s)))

\* str.find(p) + 1: the first place p occurs in s, 0 if none
Find(s, p) ==
    LET hits == {i \in 1..(Len(s) - Len(p) + 1) : SubSeq(s, i, i + Len(p) - 1) = p}
    IN IF hits = {} THEN 0 ELSE CHOOSE i \in hits : \A j \in hits : i <= j

\* p in s
Contains(s, p) == Find(s, p) # 0

RECURSIVE LStrip(_)
LStrip(s) == IF s # "" /\ Char(s, 1) = " " THEN LStrip(SubSeq(s, 2, Len(s))) ELSE s

RECURSIVE RStrip(_)
RStrip(s) == IF s # "" /\ Char(s, Len(s)) = " " THEN RStrip(SubSeq(s, 1, Len(s) - 1)) ELSE s

\* str.strip()
Strip(s) == LStrip(RStrip(s))

RECURSIVE Split(_, _)
\* str.split(sep): every piece
Split(s, sep) ==
    LET i == Find(s, sep)
    IN IF i = 0 THEN <<s>>
       ELSE <<SubSeq(s, 1, i - 1)>> \o Split(SubSeq(s, i + Len(sep), Len(s)), sep)

\* str.split(sep, 1): at most two pieces
Split1(s, sep) ==
    LET i == Find(s, sep)
    IN IF i = 0 THEN <<s>>
       ELSE <<SubSeq(s, 1, i - 1), SubSeq(s, i + Len(sep), Len(s))>>

RECURSIVE Replace(_, _, _)
\* str.replace(old, new): every non-overlapping occurrence, left to right
Replace(s, old, new) ==
    LET i == Find(s, old)
    IN IF i = 0 THEN s
       ELSE SubSeq(s, 1, i - 1) \o new \o Replace(SubSeq(s, i + Len(old), Len(s)), old, new)

RECURSIVE Lower(_)
\* str.lower() on ASCII letters
Lower(s) ==
    IF s = "" THEN ""
    ELSE LET c == Char(s, 1)
             up == {i \in 1..Len(UpperCase) : Char(UpperCase, i) = c}
         IN (IF up = {} THEN c ELSE Char(LowerCase, CHOOSE i \in up : TRUE))
            \o Lower(SubSeq(s, 2, Len(s)))

RECURSIVE StrLess(_, _)
\* a < b for two str: by code point, a proper prefix first
StrLess(a, b) ==
    IF b = "" THEN FALSE
    ELSE IF a = "" THEN TRUE
    ELSE IF Char(a, 1) # Char(b, 1) THEN Ord(Char(a, 1)) < Ord(Char(b, 1))
    ELSE StrLess(SubSeq(a, 2, Len(a)), SubSeq(b, 2, Len(b)))

(***************************************************************************)
(* datetime                                                                *)
(***************************************************************************)
IsLeap(y) == (y % 4 = 0 /\ y % 100 # 0) \/ y % 400 = 0

DaysInMonth(y, m) ==
    IF m = 2 THEN (IF IsLeap(y) THEN 29 ELSE 28)
    ELSE IF m \in {4, 6, 9, 11} THEN 30 ELSE 31

\* A datetime at midnight is <<year, month, day>>.
DateLE(a, b) ==
    \/ a[1] < b[1]
    \/ a[1] = b[1] /\ a[2] < b[2]
    \/ a[1] = b[1] /\ a[2] = b[2] /\ a[3] <= b[3]

\* d + timedelta(days=1)
PlusOneDay(d) ==
    IF d[3] < DaysInMonth(d[1], d[2]) THEN <<d[1], d[2], d[3] + 1>>
    ELSE IF d[2] < 12 THEN <<d[1], d[2] + 1, 1>>
    ELSE <<d[1] + 1, 1, 1>>

\* re.match of two digits, a dot, two digits, a dot, four digits at the start of s: the matched prefix, "" if no match
MatchDatePrefix(s) ==
    IF /\ Len(s) >= 10
       /\ \A i \in {1, 2, 4, 5, 7, 8, 9, 10} : IsDigit(Char(s, i))
       /\ Char(s, 3) = "."
       /\ Char(s, 6) = "."
    THEN SubSeq(s, 1, 10)
    ELSE ""

\* datetime.strptime(t, '%d.%m.%Y') for a t that the pattern matched:
\* << >> where it raises ValueError
Strptime(t) ==
    LET d == ToInt(SubSeq(t, 1, 2))
        m == ToInt(SubSeq(t, 4, 5))
        y == ToInt(SubSeq(t, 7, 10))
    IN IF y >= 1 /\ m \in 1..12 /\ d >= 1 /\ d <= DaysInMonth(y, m)
       THEN <<y, m, d>>
       ELSE << >>

(***************************************************************************)
(* create_calendar.parse_date_range                                        *)
(***************************************************************************)
NotSpecified == "Not specified"

DirectPhrase == "direkt beim Veranstalter"

RangeSep == " - "

\* parse_date: the first DD.MM.YYYY of s, trailing text ignored; << >> is None
parse_date(s) ==
    LET m == MatchDatePrefix(Strip(s))
    IN IF m # "" THEN Strptime(m) ELSE << >>

\* Mutant of range_result: "or" where the code has "and".
range_result_either(start_date, end_date) ==
    IF start_date # << >> \/ end_date # << >> THEN <<start_date, end_date>> ELSE << >>

\* The window the range branch returns from its two parsed parts.
range_result(start_date, end_date) ==
    IF start_date # << >> /\ end_date # << >> THEN <<start_date, end_date>> ELSE << >>

\* << >> is None, else <<start_date, end_date>>
parse_date_range(text) ==
    IF text = "" \/ text = NotSpecified THEN << >>
    ELSE IF Contains(text, DirectPhrase) THEN << >>
    ELSE LET s == Strip(text)
         IN IF Contains(s, RangeSep)
            THEN LET parts == Split1(s, RangeSep)
                 IN range_result(parse_date(parts[1]), parse_date(parts[2]))
            ELSE LET date == parse_date(s)
                 IN IF date # << >> THEN <<date, date>> ELSE << >>

(***************************************************************************)
(* scraper.group_events_by_name                                            *)
(*                                                                         *)
(* An occurrence (the dict parse_event_page returns) is a record with the  *)
(* fields name, age, place, date, time, sign_up_date, event_url and        *)
(* description; a grouped row has is_continuation as well.                 *)
(***************************************************************************)
SortSentinel == <<"9999", "99", "99">>

\* Mutant of parse_date_for_sort: the parts in the order they are written.
parse_date_for_sort_unreversed(date) ==
    LET parts == Split(date, ".")
    IN IF Len(parts) = 3 THEN <<parts[1], parts[2], parts[3]>> ELSE SortSentinel

\* DD.MM.YYYY to the tuple (YYYY, MM, DD) of str
parse_date_for_sort(date) ==
    LET parts == Split(date, ".")
    IN IF Len(parts) = 3 THEN <<parts[3], parts[2], parts[1]>> ELSE SortSentinel

\* a < b for two tuples of three str
KeyLess(a, b) ==
    \/ StrLess(a[1], b[1])
    \/ a[1] = b[1] /\ StrLess(a[2], b[2])
    \/ a[1] = b[1] /\ a[2] = b[2] /\ StrLess(a[3], b[3])

\* list.sort(key=...) is stable: e goes behind every element whose key is not
\* greater than its own.
InsertByDate(sorted, e) ==
    LET k == Cardinality({i \in 1..Len(sorted) :
                 ~KeyLess(parse_date_for_sort(e.date), parse_date_for_sort(sorted[i].date))})
    IN SubSeq(sorted, 1, k) \o <<e>> \o SubSeq(sorted, k + 1, Len(sorted))

RECURSIVE SortByDate(_)
\* occurrences.sort(key=lambda e: parse_date_for_sort(e.get('date', '')))
SortByDate(occurrences) ==
    IF occurrences = << >> THEN << >>
    ELSE InsertByDate(SortByDate(SubSeq(occurrences, 1, Len(occurrences) - 1)),
                      occurrences[Len(occurrences)])

\* Mutant of GroupKeys: a name moves to the end each time it is seen again.
GroupKeysLastSeen(events) ==
    LET last(n) == CHOOSE i \in 1..Len(events) :
                       events[i].name = n /\ \A j \in (i + 1)..Len(events) : events[j].name # n
        at == {i \in 1..Len(events) : last(events[i].name) = i}
        rank(i) == Cardinality({j \in at : j <= i})
    IN [k \in 1..Cardinality(at) |-> events[CHOOSE i \in at : rank(i) = k].name]

\* The keys of the OrderedDict grouped: each name where it is seen first.
GroupKeys(events) ==
    LET at == {i \in 1..Len(events) : \A j \in 1..(i - 1) : events[j].name # events[i].name}
        rank(i) == Cardinality({j \in at : j <= i})
    IN [k \in 1..Cardinality(at) |-> events[CHOOSE i \in at : rank(i) = k].name]

\* grouped[name]: the occurrences of that name, in input order
GroupOf(events, name) == SelectSeq(events, LAMBDA e : e.name = name)

\* The first occurrence of a sorted group, as it is appended to result.
PrimaryRow(event) ==
    [name |-> event.name, event_url |-> event.event_url,
     description |-> event.description, age |-> event.age, place |-> event.place,
     date |-> event.date, time |-> event.time, sign_up_date |-> event.sign_up_date,
     is_continuation |-> FALSE]

\* Mutant of ContinuationRow: the later occurrence is appended as it was scraped.
ContinuationRowCopied(name, event) ==
    [name |-> name, event_url |-> event.event_url,
     description |-> event.description, age |-> event.age, place |-> event.place,
     date |-> event.date, time |-> event.time, sign_up_date |-> event.sign_up_date,
     is_continuation |-> TRUE]

\* A later occurrence of a sorted group.
ContinuationRow(name, event) ==
    [name |-> name, event_url |-> event.event_url,
     description |-> "", age |-> "", place |-> "",
     date |-> event.date, time |-> event.time, sign_up_date |-> event.sign_up_date,
     is_continuation |-> TRUE]

\* The rows of one group.
GroupRows(name, occurrences) ==
    LET sorted == SortByDate(occurrences)
    IN [idx \in 1..Len(sorted) |->
           IF idx = 1 THEN PrimaryRow(sorted[idx]) ELSE ContinuationRow(name, sorted[idx])]

RECURSIVE ConcatGroups(_, _)
ConcatGroups(events, keys) ==
    IF keys = << >> THEN << >>
    ELSE GroupRows(keys[1], GroupOf(events, keys[1]))
            \o ConcatGroups(events, SubSeq(keys, 2, Len(keys)))

group_events_by_name(events) == ConcatGroups(events, GroupKeys(events))

(***************************************************************************)
(* parse_date_range on its own: the texts it is called with                *)
(***************************************************************************)
MaxPad == 1

RECURSIVE Spaces(_)
Spaces(n) == IF n = 0 THEN "" ELSE " " \o Spaces(n - 1)

\* What can stand where a date is expected in a sign-up cell.
DateParts ==
    {"01.05.2024", "10.05.2024", "31.12.2024", "29.02.2024", "29.02.2023",
     "32.01.2024", "00.05.2024", "1.5.2024", "10.05.2024 12 Uhr", ""}

DirectMessage == "Die Anmeldung erfolgt direkt beim Veranstalter."

DateTexts ==
    {Spaces(l) \o a \o Spaces(r) : a \in DateParts, l \in 0..MaxPad, r \in 0..MaxPad}
    \cup {Spaces(l) \o a \o sep \o b \o Spaces(r) :
            a \in DateParts, b \in DateParts, sep \in {RangeSep, " bis "},
            l \in 0..MaxPad, r \in 0..MaxPad}
    \cup {NotSpecified, DirectMessage, "01.05.2024 - 10.05.2024, sonst direkt beim Veranstalter"}

\* The variables of the scraper and the exports, at rest.
ExportIdle ==
    /\ selections = << >>
    /\ loaded_ws = << >>
    /\ saved_ws = << >>
    /\ sheet = << >>
    /\ calendar = << >>
    /\ cal_run = << >>
    /\ cal_prev = << >>
    /\ reminders = << >>
    /\ now = 0
    /\ edits = 0
    /\ scrapes = 0
    /\ RunIdle

export_vars ==
    <<selections, loaded_ws, saved_ws, sheet, calendar, cal_run, cal_prev, reminders,
      now, edits, scrapes, run_vars>>

PipelineIdle == events_data = << >> /\ grouped_events = << >> /\ ExportIdle

pipeline_vars == <<events_data, grouped_events, export_vars>>

InitDate ==
    /\ date_str \in DateTexts
    /\ date_range = << >>
    /\ PipelineIdle

\* One call of parse_date_range(date_str).
ParseDateRange ==
    /\ date_range = << >>
    /\ date_range' = <<parse_date_range(date_str)>>
    /\ UNCHANGED <<date_str, pipeline_vars>>

NextDate == ParseDateRange

SpecDate == InitDate /\ [][NextDate]_vars

\* parse_date_range has returned.
Parsed == date_range # << >>

\* What it returned: << >> for None.
Window == date_range[1]

IsDate(d) == Len(d) = 3

\* C5: whenever parse_date_range returns a window for a range text (one with
\* " - " between two valid dates) the start is not later than the end, and for
\* a text holding a single valid date start and end are the same date.
C5_StartNotAfterEnd ==
    (Parsed /\ Window # << >>) =>
        IF Contains(Strip(date_str), RangeSep)
        THEN DateLE(Window[1], Window[2])
        ELSE Window[1] = Window[2]

\* C6 as stated: a text that contains " - " with a part that is no real
\* calendar date, or a text without " - " that is no real calendar date, gives
\* None, and a returned window has both its dates.
C6_NoPartialWindowAsStated ==
    Parsed =>
        /\ Window # << >> => (Len(Window) = 2 /\ IsDate(Window[1]) /\ IsDate(Window[2]))
        /\ IF Contains(date_str, RangeSep)
           THEN LET parts == Split1(date_str, RangeSep)
                IN (parse_date(parts[1]) = << >> \/ parse_date(parts[2]) = << >>)
                       => Window = << >>
           ELSE parse_date(date_str) = << >> => Window = << >>

\* C6, amended: the same, of the text stripped of the white space around it (a
\* " - " at the very end of the text is no separator: the text is then read as
\* a single date).
C6_NoPartialWindow ==
    Parsed =>
        /\ Window # << >> => (Len(Window) = 2 /\ IsDate(Window[1]) /\ IsDate(Window[2]))
        /\ LET s == Strip(date_str)
           IN IF Contains(s, RangeSep)
              THEN LET parts == Split1(s, RangeSep)
                   IN (parse_date(parts[1]) = << >> \/ parse_date(parts[2]) = << >>)
                          => Window = << >>
              ELSE parse_date(s) = << >> => Window = << >>

\* C6's case: a range whose first part is a date and whose second is not.
C6_Witness ==
    /\ Parsed
    /\ Contains(Strip(date_str), RangeSep)
    /\ LET parts == Split1(Strip(date_str), RangeSep)
       IN parse_date(parts[1]) # << >> /\ parse_date(parts[2]) = << >>
    /\ Window = << >>

(***************************************************************************)
(* group_events_by_name on its own: the lists it is called with            *)
(***************************************************************************)
MaxGroupIn == 3

GroupNames == {"Ferienlager", "Zoo Besuch"}

\* The date of an occurrence is the text of the page's Datum section: a
\* DD.MM.YYYY date, or free text.
GroupDates ==
    {"01.06.2024", "15.06.2024", "20.12.2023", "15.06.", "", "15.06.2024 - 17.06.2024"}

\* The URL of the i-th listing row.
UrlOf(i) == "/event/" \o Char(Digits, i + 1)

\* The i-th scraped occurrence, of that name and date.
Occurrence(i, name, date) ==
    [name |-> name, age |-> "6-10", place |-> "Treffpunkt", date |-> date,
     time |-> "1" \o Char(Digits, i + 1) \o ":00",
     sign_up_date |-> IF i = 2 THEN "01.05.2024 - 10.05.2024" ELSE NotSpecified,
     event_url |-> UrlOf(i), description |-> "Beschreibung"]

GroupInputs ==
    UNION {{[i \in 1..n |-> Occurrence(i, f[i][1], f[i][2])] :
              f \in [1..n -> GroupNames \X GroupDates]} : n \in 1..MaxGroupIn}

InitGroup ==
    /\ events_data \in GroupInputs
    /\ grouped_events = << >>
    /\ date_str = ""
    /\ date_range = << >>
    /\ ExportIdle

\* One call of group_events_by_name(events_data).
GroupEvents ==
    /\ grouped_events = << >>
    /\ grouped_events' = group_events_by_name(events_data)
    /\ UNCHANGED <<events_data, date_str, date_range, export_vars>>

NextGroup == GroupEvents

SpecGroup == InitGroup /\ [][NextGroup]_vars

\* group_events_by_name has returned.
Grouped == grouped_events # << >>

\* A DD.MM.YYYY value: two digits, a dot, two digits, a dot, four digits.
IsDDMMYYYY(s) == Len(s) = 10 /\ MatchDatePrefix(s) = s

\* Its calendar date <<year, month, day>>, in numbers.
CalendarDate(s) == <<ToInt(SubSeq(s, 7, 10)), ToInt(SubSeq(s, 4, 5)), ToInt(SubSeq(s, 1, 2))>>

\* Where in the input the occurrence of a grouped row stood (the URLs of the
\* input are distinct).
InputIndex(row) == CHOOSE i \in 1..Len(events_data) : events_data[i].event_url = row.event_url

SameGroup(i, j) == grouped_events[i].name = grouped_events[j].name

\* C2: within a group the rows are in ascending order of the calendar date
\* (year, month, day) of their DD.MM.YYYY dates, and the primary row of a group
\* of DD.MM.YYYY dates is the occurrence with the earliest date.
C2_GroupSortedByDate ==
    Grouped =>
        /\ \A i, j \in 1..Len(grouped_events) :
              (i < j /\ SameGroup(i, j)
                 /\ IsDDMMYYYY(grouped_events[i].date) /\ IsDDMMYYYY(grouped_events[j].date))
              => DateLE(CalendarDate(grouped_events[i].date), CalendarDate(grouped_events[j].date))
        /\ \A i \in 1..Len(grouped_events) :
              LET members == {k \in 1..Len(events_data) : events_data[k].name = grouped_events[i].name}
              IN (~grouped_events[i].is_continuation
                    /\ \A k \in members : IsDDMMYYYY(events_data[k].date))
                 => /\ IsDDMMYYYY(grouped_events[i].date)
                    /\ \A k \in members :
                          DateLE(CalendarDate(grouped_events[i].date), CalendarDate(events_data[k].date))

\* C2's case: 15.06.2024 scraped before 01.06.2024 under one name; 01.06. is
\* the primary row and 15.06. its continuation.
C2_Witness ==
    /\ Grouped
    /\ Len(events_data) = 2
    /\ events_data[1].name = events_data[2].name
    /\ events_data[1].date = "15.06.2024"
    /\ events_data[2].date = "01.06.2024"
    /\ grouped_events[1].date = "01.06.2024" /\ ~grouped_events[1].is_continuation
    /\ grouped_events[2].date = "15.06.2024" /\ grouped_events[2].is_continuation

\* C3: an occurrence whose date is no DD.MM.YYYY value stands behind every
\* occurrence of its group whose date is one, and those occurrences keep the
\* order they had in the input.
C3_UnparsableLast ==
    Grouped =>
        \A i, j \in 1..Len(grouped_events) :
            (i < j /\ SameGroup(i, j)) =>
                /\ IsDDMMYYYY(grouped_events[j].date) => IsDDMMYYYY(grouped_events[i].date)
                /\ (~IsDDMMYYYY(grouped_events[i].date) /\ ~IsDDMMYYYY(grouped_events[j].date))
                      => InputIndex(grouped_events[i]) < InputIndex(grouped_events[j])

\* Where a name is first seen in the input.
FirstSeen(name) ==
    CHOOSE i \in 1..Len(events_data) :
        events_data[i].name = name /\ \A j \in 1..(i - 1) : events_data[j].name # name

\* C4: the groups come in the order their names first appear in the input,
\* each as one primary row followed at once by all its continuation rows, and
\* the rows of two names are never interleaved.
C4_GroupsInFirstSeenOrder ==
    Grouped =>
        /\ \A i, j \in 1..Len(grouped_events) :
              i < j => FirstSeen(grouped_events[i].name) <= FirstSeen(grouped_events[j].name)
        /\ \A i \in 1..Len(grouped_events) :
              grouped_events[i].is_continuation
                 = (i > 1 /\ grouped_events[i - 1].name = grouped_events[i].name)
        /\ \A k \in 1..Len(events_data) :
              Cardinality({i \in 1..Len(grouped_events) : grouped_events[i].name = events_data[k].name})
                 = Cardinality({i \in 1..Len(events_data) : events_data[i].name = events_data[k].name})

\* C4's case: a name, another name, the first name again.
C4_Witness ==
    /\ Grouped
    /\ Len(events_data) = 3
    /\ events_data[1].name = events_data[3].name
    /\ events_data[1].name # events_data[2].name
    /\ grouped_events[1].name = events_data[1].name
    /\ grouped_events[2].name = events_data[1].name /\ grouped_events[2].is_continuation
    /\ grouped_events[3].name = events_data[2].name /\ ~grouped_events[3].is_continuation

(***************************************************************************)
(* utils.clean_text, utils.extract_field_by_header                         *)
(*                                                                         *)
(* A detail page, as BeautifulSoup parses it, is a record:                 *)
(*   h2       << >> (no <h2>) or <<its text>>                              *)
(*   intro    the texts of the <p> siblings that follow the <h2>, up to    *)
(*            the first <h3> sibling                                       *)
(*   paras    the texts of all <p> of the page, in document order          *)
(*   sections the <h3> of the page in document order, each [h3 |-> its     *)
(*            text, next |-> << >> or <<the text of its next sibling       *)
(*            element>>, rest |-> the text that follows it up to the next  *)
(*            <h3> when it has no next sibling element]                    *)
(* White space in a text is the space character.                           *)
(***************************************************************************)
RECURSIVE Collapse(_)
\* re.sub(r'\s+', ' ', text)
Collapse(s) ==
    IF Len(s) < 2 THEN s
    ELSE IF Char(s, 1) = " " /\ Char(s, 2) = " " THEN Collapse(SubSeq(s, 2, Len(s)))
    ELSE Char(s, 1) \o Collapse(SubSeq(s, 2, Len(s)))

clean_text(text) == IF text = "" THEN "" ELSE Strip(Collapse(text))

RECURSIVE extract_field_by_header(_, _)
\* The first <h3> that holds header_text and has content; "" if there is none.
extract_field_by_header(sections, header_text) ==
    IF sections = << >> THEN ""
    ELSE LET header == sections[1]
         IN IF ~Contains(Lower(header.h3), Lower(header_text))
            THEN extract_field_by_header(SubSeq(sections, 2, Len(sections)), header_text)
            ELSE IF header.next # << >> THEN clean_text(header.next[1])
            ELSE IF header.rest # "" THEN clean_text(header.rest)
            ELSE extract_field_by_header(SubSeq(sections, 2, Len(sections)), header_text)

(***************************************************************************)
(* scraper.parse_event_page, scraper.scrape_event_details                  *)
(***************************************************************************)
LotteryLabel == "Verlosungszeitraum"

MinDescription == 50

NoDescription == "No description available"

\* Step 6 of parse_event_page: the sign-up text of the page.
sign_up_of(sections) ==
    LET anmeldebeginn == extract_field_by_header(sections, "Anmeldebeginn")
        lottery ==
            IF anmeldebeginn # "" /\ Contains(anmeldebeginn, LotteryLabel)
            THEN Replace(IF Contains(anmeldebeginn, ":")
                         THEN Strip(Split1(anmeldebeginn, ":")[2])
                         ELSE anmeldebeginn,
                         " bis ", RangeSep)
            ELSE ""
        anmeldung == extract_field_by_header(sections, "Anmeldung")
        sign_up ==
            IF lottery # "" THEN lottery
            ELSE IF anmeldung # "" /\ Contains(anmeldung, DirectPhrase) THEN DirectMessage
            ELSE ""
    IN IF sign_up # "" THEN sign_up ELSE NotSpecified

\* The first text of more than 50 characters, cleaned; "" if there is none.
FirstSubstantial(texts) ==
    LET long == {i \in 1..Len(texts) : Len(clean_text(texts[i])) > MinDescription}
    IN IF long = {} THEN ""
       ELSE clean_text(texts[CHOOSE i \in long : \A j \in long : i <= j])

\* Step 8 of parse_event_page.
description_of(page) ==
    LET after_title == IF page.h2 # << >> THEN FirstSubstantial(page.intro) ELSE ""
        description == IF after_title # "" THEN after_title ELSE FirstSubstantial(page.paras)
    IN IF description # "" THEN description ELSE NoDescription

parse_event_page(page, event_url) ==
    [name |-> IF page.h2 # << >> THEN clean_text(page.h2[1]) ELSE "",
     age |-> extract_field_by_header(page.sections, "Alter"),
     place |-> extract_field_by_header(page.sections, "Treffpunkt"),
     date |-> extract_field_by_header(page.sections, "Datum"),
     time |-> extract_field_by_header(page.sections, "Uhrzeit"),
     sign_up_date |-> sign_up_of(page.sections),
     event_url |-> event_url,
     description |-> description_of(page)]

\* The record scrape_event_details returns when the fetch raised.
ErrorRecord(event_url, listing_date) ==
    [name |-> "ERROR: " \o event_url, age |-> "", place |-> "", date |-> listing_date,
     time |-> "", sign_up_date |-> "", event_url |-> event_url,
     description |-> "Scraping failed: fetch"]

\* fetched is << >> when make_request_with_retry raised, else <<the page>>.
scrape_event_details(fetched, event_url, listing_date) ==
    IF fetched = << >> THEN ErrorRecord(event_url, listing_date)
    ELSE LET event_data == parse_event_page(fetched[1], event_url)
         IN IF event_data.date = "" /\ listing_date # ""
            THEN [event_data EXCEPT !.date = listing_date]
            ELSE event_data

(***************************************************************************)
(* The sheet output/familienpass_events.xlsx                               *)
(*                                                                         *)
(* A data row is a record of its cells: selected (column A), name (B) and  *)
(* link (the hyperlink of B), description, age, place, date, time and      *)
(* sign_up (C to H).  An empty cell reads as None and a cell written ''    *)
(* is stored empty: both are "".  Column A holds what the user typed, a    *)
(* text or a number: Txt(s) or Num(n).  save_to_excel writes nothing into  *)
(* column G.                                                               *)
(***************************************************************************)
CONTINUATION_LINK_MARKER == "↗"

Txt(s) == [kind |-> "str", str |-> s, num |-> 0]

Num(n) == [kind |-> "num", str |-> "", num |-> n]

\* bool(v) of a cell value
Truthy(v) == IF v.kind = "str" THEN v.str # "" ELSE v.num # 0

\* str(v) of a cell value (of a number: of one digit)
PyStr(v) == IF v.kind = "str" THEN v.str ELSE Char(Digits, v.num + 1)

\* selected and str(selected).strip() != ''
IsSelected(v) == Truthy(v) /\ Strip(PyStr(v)) # ""

\* The dict name -> Selected value read from the rows of the sheet (no rows:
\* no file, and the dict is empty); of two rows of one name the later wins.
load_existing_selections(rows) ==
    LET marked == {i \in 1..Len(rows) : rows[i].name # "" /\ IsSelected(rows[i].selected)}
    IN [n \in {rows[i].name : i \in marked} |->
           rows[CHOOSE i \in marked : rows[i].name = n
                                      /\ \A j \in marked : rows[j].name = n => j <= i].selected]

\* selections.get(name, '')
SelectionFor(sel, name) == IF name \in DOMAIN sel THEN sel[name] ELSE Txt("")

\* The sheet row save_to_excel writes for one grouped row.
SheetRow(event, sel) ==
    IF event.is_continuation
    THEN [selected |-> Txt(""), name |-> CONTINUATION_LINK_MARKER, link |-> event.event_url,
          description |-> "", age |-> "", place |-> "",
          date |-> event.date, time |-> "", sign_up |-> event.sign_up_date]
    ELSE [selected |-> SelectionFor(sel, event.name), name |-> event.name,
          link |-> event.event_url, description |-> event.description,
          age |-> event.age, place |-> event.place,
          date |-> event.date, time |-> "", sign_up |-> event.sign_up_date]

\* The data rows of the workbook save_to_excel saves.
save_to_excel(events, sel) ==
    LET grouped == group_events_by_name(events)
    IN [row \in 1..Len(grouped) |-> SheetRow(grouped[row], sel)]

(***************************************************************************)
(* create_calendar.create_calendar_events                                  *)
(*                                                                         *)
(* None for current_selected_event and for a URL is "".  An event of the   *)
(* calendar is a record of its properties, and of row_num, the sheet row   *)
(* it was made from (which the file does not hold).                        *)
(***************************************************************************)
SummaryPrefix == "Anmeldung Familienpass: "

TwoDigits(n) == Char(Digits, (n \div 10) + 1) \o Char(Digits, (n % 10) + 1)

FourDigits(n) == TwoDigits(n \div 100) \o TwoDigits(n % 100)

\* datetime.isoformat() of a datetime at midnight
IsoFormat(d) == FourDigits(d[1]) \o "-" \o TwoDigits(d[2]) \o "-" \o TwoDigits(d[3]) \o "T00:00:00"

\* hashlib.sha256(s.encode()).hexdigest()[:32]: a digest, taken to be free of
\* collisions, is written as its input.
Sha256Hex32(s) == "sha256(" \o s \o ")"

\* Mutant of cal_is_continuation: the marker is not looked for.
cal_is_continuation_blank_only(event_name) == event_name = "" \/ Strip(event_name) = ""

\* not event_name or str(event_name).strip() in ('', CONTINUATION_LINK_MARKER)
cal_is_continuation(event_name) ==
    event_name = "" \/ Strip(event_name) \in {"", CONTINUATION_LINK_MARKER}

\* Mutant of CalendarEvent: the UID is made from the time of the run.
CalendarEventStampedUid(current_selected_event, row_url, window, row_num, stamp) ==
    [summary |-> SummaryPrefix \o current_selected_event,
     dtstart |-> window[1],
     dtend |-> PlusOneDay(window[2]),
     dtstamp |-> stamp,
     uid |-> Sha256Hex32(current_selected_event \o "-" \o Char(Digits, stamp + 1)) \o "@familienpass",
     url |-> row_url,
     row_num |-> row_num]

\* The Event added to the calendar for one row.
CalendarEvent(current_selected_event, row_url, window, row_num, stamp) ==
    [summary |-> SummaryPrefix \o current_selected_event,
     dtstart |-> window[1],
     dtend |-> PlusOneDay(window[2]),
     dtstamp |-> stamp,
     uid |-> Sha256Hex32(current_selected_event \o "-" \o IsoFormat(window[1])
                            \o "-" \o IsoFormat(window[2])) \o "@familienpass",
     url |-> row_url,
     row_num |-> row_num]

RECURSIVE CalendarWalk(_, _, _, _, _)
\* The loop over the rows from row_num on: [events added, events_skipped].
CalendarWalk(rows, row_num, current_selected_event, current_event_url, stamp) ==
    IF row_num > Len(rows) THEN [events |-> << >>, skipped |-> 0]
    ELSE LET row == rows[row_num]
             is_continuation == cal_is_continuation(row.name)
             main_selected == ~is_continuation /\ IsSelected(row.selected)
             selected_event == IF is_continuation THEN current_selected_event
                               ELSE IF main_selected THEN row.name ELSE ""
             event_url == IF is_continuation THEN current_event_url
                          ELSE IF main_selected THEN row.link ELSE ""
             rest == CalendarWalk(rows, row_num + 1, selected_event, event_url, stamp)
             row_url == IF is_continuation /\ row.link # "" THEN row.link ELSE event_url
             window == parse_date_range(row.sign_up)
         IN IF selected_event = "" THEN rest
            ELSE IF window = << >> THEN [rest EXCEPT !.skipped = @ + 1]
            ELSE [rest EXCEPT !.events =
                    <<CalendarEvent(selected_event, row_url, window, row_num, stamp)>> \o @]

create_calendar_events(rows, stamp) == CalendarWalk(rows, 1, "", "", stamp)

(***************************************************************************)
(* create_reminder.read_selected_events                                    *)
(***************************************************************************)
\* not event_name or str(event_name).strip() in ('', CONTINUATION_LINK_MARKER)
rem_is_continuation(event_name) ==
    event_name = "" \/ Strip(event_name) \in {"", CONTINUATION_LINK_MARKER}

\* Mutant of ReminderCurrent: a main row that is not selected leaves the
\* current event as it was.
ReminderCurrentKept(row, current_selected_event) ==
    IF rem_is_continuation(row.name) THEN current_selected_event
    ELSE IF IsSelected(row.selected) THEN row.name ELSE current_selected_event

\* current_selected_event after the row: a main row sets or clears it.
ReminderCurrent(row, current_selected_event) ==
    IF rem_is_continuation(row.name) THEN current_selected_event
    ELSE IF IsSelected(row.selected) THEN row.name ELSE ""

\* The dict appended to events for one row.
ReminderEvent(current_selected_event, row_url, row, window, row_num) ==
    [title |-> SummaryPrefix \o current_selected_event,
     url |-> row_url,
     sign_up_period |-> row.sign_up,
     date |-> Strip(row.date),
     time |-> Strip(row.time),
     start_date |-> window[1],
     row_num |-> row_num]

RECURSIVE ReminderWalk(_, _, _, _)
\* The loop over the rows from row_num on: the events appended.
ReminderWalk(rows, row_num, current_selected_event, current_event_url) ==
    IF row_num > Len(rows) THEN << >>
    ELSE LET row == rows[row_num]
             is_continuation == rem_is_continuation(row.name)
             selected_event == ReminderCurrent(row, current_selected_event)
             event_url == IF is_continuation THEN current_event_url
                          ELSE IF IsSelected(row.selected) THEN row.link ELSE ""
             rest == ReminderWalk(rows, row_num + 1, selected_event, event_url)
             row_url == IF is_continuation /\ row.link # "" THEN row.link ELSE event_url
             window == parse_date_range(row.sign_up)
         IN IF selected_event = "" THEN rest
            ELSE IF window = << >> THEN rest
            ELSE <<ReminderEvent(selected_event, row_url, row, window, row_num)>> \o rest

read_selected_events(rows) == ReminderWalk(rows, 1, "", "")

(***************************************************************************)
(* The site: detail pages and the listing                                  *)
(*                                                                         *)
(* A page is a record of what parse_event_page looks at: h2 (<< >> or      *)
(* <<text>>), intro (the texts of the <p> siblings after the <h2> and      *)
(* before the first <h3>), paras (the texts of all <p>), sections (the     *)
(* <h3>, each with the text of its next sibling and the rest of its        *)
(* parent's text).                                                         *)
(***************************************************************************)
Section(h3, text) == [h3 |-> h3, next |-> <<text>>, rest |-> ""]

CampText == "Eine Woche Zeltlager am See mit Lagerfeuer und Nachtwanderung."

\* The fetch of event_url: << >> when it raises, else <<the page>>.
Fetch(event_url) ==
    CASE event_url = "/event/42" ->
           <<[h2 |-> <<"Ferienlager">>, intro |-> <<"Neu!", CampText>>,
              paras |-> <<"Neu!", CampText>>,
              sections |-> <<Section("Alter", "6 - 12"), Section("Datum", "15.06.2024"),
                             Section("Anmeldebeginn",
                                     "Verlosungszeitraum: 01.05.2024 bis 10.05.2024")>>]>>
      [] event_url = "/event/43" ->
           <<[h2 |-> <<" Ferienlager ">>, intro |-> << >>, paras |-> << >>,
              sections |-> <<Section("Datum", "01.06.2024"),
                             Section("Anmeldebeginn",
                                     "Verlosungszeitraum 02.05.2024 bis 09.05.2024")>>]>>
      [] event_url = "/event/44" ->
           <<[h2 |-> <<"Zoo Besuch">>, intro |-> << >>, paras |-> << >>,
              sections |-> <<Section("Treffpunkt", "Zoo"),
                             Section("Anmeldung",
                                     "Anmeldung direkt beim Veranstalter, nicht hier.")>>]>>
      [] event_url = "/event/45" ->
           <<[h2 |-> << >>, intro |-> << >>, paras |-> << >>,
              sections |-> <<Section("Anmeldebeginn",
                                     "Verlosungszeitraum: 03.06.2024 bis 04.06.2024")>>]>>
      [] event_url = "/event/46" -> << >>
      [] OTHER ->
           <<[h2 |-> <<"Zoo Besuch">>, intro |-> << >>, paras |-> << >>,
              sections |-> <<Section("Datum", "05.07.2024"),
                             Section("Anmeldebeginn", "Verlosungszeitraum:  01.06.2024 ")>>]>>

EventUrls == {"/event/42", "/event/43", "/event/44", "/event/45", "/event/46", "/event/47"}

\* The date the listing shows next to the link of event_url.
ListingDate(event_url) ==
    CASE event_url = "/event/44" -> "22.07.2024"
      [] event_url = "/event/45" -> "03.07.2024"
      [] event_url = "/event/46" -> ""
      [] OTHER -> "01.01.2024"

\* scrape_event_details of every URL of the site with its listing date.
ScrapedDetails ==
    [event_url \in EventUrls |->
        scrape_event_details(Fetch(event_url), event_url, ListingDate(event_url))]

MaxListing == 2

\* What get_all_event_urls can return: up to MaxListing different URLs.
Listings ==
    {urls \in UNION {[1..n -> EventUrls] : n \in 0..MaxListing} :
        \A i, j \in 1..Len(urls) : urls[i] = urls[j] => i = j}

(***************************************************************************)
(* The pipeline: scraper runs, the user's marks, calendar and reminder     *)
(* runs                                                                    *)
(***************************************************************************)
MaxScrapes == 2

MaxEdits == 1

MaxCalendarRuns == 2

\* What the user types into a Selected cell.
EditValues == {Txt("X"), Txt(" "), Num(0)}

DateIdle ==
    /\ date_str = ""
    /\ date_range = << >>

Init ==
    /\ DateIdle
    /\ PipelineIdle

\* scraper.main with the listing event_urls
ScraperRun(event_urls) ==
    /\ scrapes < MaxScrapes
    /\ IF event_urls = << >>
       THEN UNCHANGED vars
       ELSE LET scraped == [idx \in 1..Len(event_urls) |-> ScrapedDetails[event_urls[idx]]]
                existing_selections == load_existing_selections(sheet)
                rows == save_to_excel(scraped, existing_selections)
            IN /\ events_data' = scraped
               /\ grouped_events' = group_events_by_name(scraped)
               /\ selections' = existing_selections
               /\ loaded_ws' = sheet
               /\ saved_ws' = rows
               /\ sheet' = rows
               /\ scrapes' = scrapes + 1
               /\ UNCHANGED <<date_str, date_range, calendar, cal_run, cal_prev, reminders,
                              now, edits, run_vars>>

\* The user types value into the Selected cell of a row of the sheet.
UserEdit(row_num, value) ==
    /\ edits < MaxEdits
    /\ row_num \in 1..Len(sheet)
    /\ sheet[row_num].selected # value
    /\ sheet' = [sheet EXCEPT ![row_num].selected = value]
    /\ edits' = edits + 1
    /\ UNCHANGED <<date_str, date_range, events_data, grouped_events, selections, loaded_ws,
                   saved_ws, calendar, cal_run, cal_prev, reminders, now, scrapes, run_vars>>

\* create_calendar.main
CalendarRun ==
    /\ now < MaxCalendarRuns
    /\ IF sheet = << >>
       THEN UNCHANGED vars
       ELSE LET result == create_calendar_events(sheet, now)
            IN /\ cal_prev' = cal_run
               /\ cal_run' = <<[sheet |-> sheet, events |-> result.events,
                                events_skipped |-> result.skipped]>>
               /\ calendar' = IF Len(result.events) > 0 THEN result.events ELSE calendar
               /\ now' = now + 1
               /\ UNCHANGED <<date_str, date_range, events_data, grouped_events, selections,
                              loaded_ws, saved_ws, sheet, reminders, edits, scrapes, run_vars>>

\* create_reminder.main
ReminderRun ==
    IF sheet = << >>
    THEN UNCHANGED vars
    ELSE /\ reminders' = <<[sheet |-> sheet, events |-> read_selected_events(sheet)]>>
         /\ UNCHANGED <<date_str, date_range, events_data, grouped_events, selections,
                        loaded_ws, saved_ws, sheet, calendar, cal_run, cal_prev, now, edits,
                        scrapes, run_vars>>

Next ==
    \/ \E event_urls \in Listings : ScraperRun(event_urls)
    \/ \E row_num \in 1..MaxListing, value \in EditValues : UserEdit(row_num, value)
    \/ CalendarRun
    \/ ReminderRun

Spec == Init /\ [][Next]_vars

(***************************************************************************)
(* Re-scrape: load_existing_selections, then save_to_excel                 *)
(***************************************************************************)
\* The scraper has saved a sheet: loaded_ws is the sheet it read before,
\* saved_ws the one it wrote, row for row the rows of grouped_events.
Rescraped == scrapes >= 1

PrimaryRows == {i \in 1..Len(grouped_events) : ~grouped_events[i].is_continuation}

\* The rows of the old sheet that carry a Selected value for the event name.
CarriedBy(name) ==
    {k \in 1..Len(loaded_ws) : loaded_ws[k].name = name /\ IsSelected(loaded_ws[k].selected)}

\* C1: after a re-scrape every primary row whose event name carried a Selected
\* value in the old sheet carries that value in the new sheet, every other
\* primary row has an empty Selected cell, and the new sheet has no row for a
\* name that only the old sheet had.
C1_SelectionsSurviveRescrape ==
    Rescraped =>
        /\ \A i \in PrimaryRows :
              LET carried == CarriedBy(grouped_events[i].name)
              IN IF carried = {} THEN saved_ws[i].selected = Txt("")
                 ELSE \E k \in carried : saved_ws[i].selected = loaded_ws[k].selected
        /\ \A i \in PrimaryRows :
              \E j \in 1..Len(events_data) : saved_ws[i].name = events_data[j].name

(***************************************************************************)
(* The calendar export on a sheet                                          *)
(***************************************************************************)
CalendarRan == cal_run # << >>

\* The name cell is blank or the marker glyph.
BlankOrMarker(name) == Strip(name) \in {"", CONTINUATION_LINK_MARKER}

\* The nearest row at or before row i with a real name; 0 if there is none.
MainRowOf(rows, i) ==
    LET mains == {k \in 1..i : ~BlankOrMarker(rows[k].name)}
    IN IF mains = {} THEN 0 ELSE CHOOSE k \in mains : \A m \in mains : m <= k

\* The entries of a run that were made from row i.
EntriesOf(run, i) == {k \in 1..Len(run.events) : run.events[k].row_num = i}

\* Row i takes part in the export as the claim states it with chosen(v) for
\* "the Selected value v marks the event as chosen": one entry, under the
\* name of its main row, when the event is chosen and the row has a window,
\* none otherwise.
RowExported(run, i, chosen) ==
    LET main == MainRowOf(run.sheet, i)
    IN IF main # 0 /\ chosen /\ parse_date_range(run.sheet[i].sign_up) # << >>
       THEN /\ Cardinality(EntriesOf(run, i)) = 1
            /\ \A k \in EntriesOf(run, i) :
                  run.events[k].summary = SummaryPrefix \o run.sheet[main].name
       ELSE EntriesOf(run, i) = {}

\* C7 as stated: an event is chosen when the Selected cell of its main row is
\* not empty.
C7_ChosenRowsExportedAsStated ==
    CalendarRan =>
        \A i \in 1..Len(cal_run[1].sheet) :
            LET main == MainRowOf(cal_run[1].sheet, i)
            IN RowExported(cal_run[1], i,
                           main # 0 /\ cal_run[1].sheet[main].selected # Txt(""))

\* C7: an event is chosen when the Selected cell of its main row holds a value
\* that is true and not only white space; a continuation row (name blank or
\* the marker) belongs to the nearest preceding row with a real name; a row
\* makes exactly one entry iff its event is chosen and its own sign-up text
\* parses to a window, and no entry otherwise.
C7_ChosenRowsExported ==
    CalendarRan =>
        \A i \in 1..Len(cal_run[1].sheet) :
            LET main == MainRowOf(cal_run[1].sheet, i)
            IN RowExported(cal_run[1], i,
                           main # 0 /\ IsSelected(cal_run[1].sheet[main].selected))

\* A run on a sheet whose chosen event has a continuation row with a window,
\* which made an entry, and a row without a window, which made none.
C7_Witness ==
    /\ CalendarRan
    /\ \E i, j \in 1..Len(cal_run[1].sheet) :
          /\ cal_run[1].sheet[i].name = CONTINUATION_LINK_MARKER
          /\ EntriesOf(cal_run[1], i) # {}
          /\ MainRowOf(cal_run[1].sheet, j) = MainRowOf(cal_run[1].sheet, i)
          /\ parse_date_range(cal_run[1].sheet[j].sign_up) = << >>
          /\ EntriesOf(cal_run[1], j) = {}

(***************************************************************************)
(* From the detail page to the calendar entry                              *)
(***************************************************************************)
PeriodDates == {"01.05.2024", "10.05.2024", "03.06.2024", "04.06.2024"}

\* The pairs <<A, B>> for which the registration-start section of the page
\* of event_url reads 'Verlosungszeitraum: A bis B'.
StatedPeriods(event_url) ==
    {ab \in PeriodDates \X PeriodDates :
        /\ Fetch(event_url) # << >>
        /\ \E s \in 1..Len(Fetch(event_url)[1].sections) :
              /\ Fetch(event_url)[1].sections[s].h3 = "Anmeldebeginn"
              /\ Fetch(event_url)[1].sections[s].next
                    = <<"Verlosungszeitraum: " \o ab[1] \o " bis " \o ab[2]>>}

\* The latest calendar run read the sheet as the scraper saved it, but for
\* the Selected cells: its rows are, row for row, the rows of grouped_events.
RanOnSavedSheet ==
    /\ CalendarRan
    /\ Len(cal_run[1].sheet) = Len(saved_ws)
    /\ \A i \in 1..Len(saved_ws) :
          [cal_run[1].sheet[i] EXCEPT !.selected = Txt("")]
              = [saved_ws[i] EXCEPT !.selected = Txt("")]

\* The primary row of the event of row i.
PrimaryRowOf(i) == CHOOSE k \in PrimaryRows : k <= i /\ \A m \in PrimaryRows : m <= i => m <= k

\* C8: an occurrence whose page reads 'Verlosungszeitraum: A bis B' is stored
\* with the sign-up text 'A - B', which parses to the window (A, B), and when
\* its event is selected the calendar run makes exactly one entry from its
\* row, with dtstart = A and dtend = the day after B.
C8_LotteryPeriodBecomesEntry ==
    RanOnSavedSheet =>
        \A i \in 1..Len(grouped_events) :
            \A ab \in StatedPeriods(grouped_events[i].event_url) :
                /\ cal_run[1].sheet[i].sign_up = ab[1] \o " - " \o ab[2]
                /\ parse_date_range(cal_run[1].sheet[i].sign_up)
                      = <<CalendarDate(ab[1]), CalendarDate(ab[2])>>
                /\ IsSelected(cal_run[1].sheet[PrimaryRowOf(i)].selected) =>
                      /\ Cardinality(EntriesOf(cal_run[1], i)) = 1
                      /\ \A k \in EntriesOf(cal_run[1], i) :
                            /\ cal_run[1].events[k].dtstart = CalendarDate(ab[1])
                            /\ cal_run[1].events[k].dtend = PlusOneDay(CalendarDate(ab[2]))

(***************************************************************************)
(* Two calendar runs on one sheet                                          *)
(***************************************************************************)
RanTwice == cal_prev # << >> /\ cal_run # << >>

CalendarRuns == cal_prev \o cal_run

RunUids(run) == [k \in 1..Len(run.events) |-> run.events[k].uid]

\* C9: two entries of the same name and the same window start and end have the
\* same uid, in one run or in two, and two runs on an unchanged sheet give
\* their entries, one by one, the same uids.
C9_UidDeterministic ==
    /\ \A r1, r2 \in 1..Len(CalendarRuns) :
          \A k1 \in 1..Len(CalendarRuns[r1].events), k2 \in 1..Len(CalendarRuns[r2].events) :
              LET e1 == CalendarRuns[r1].events[k1]
                  e2 == CalendarRuns[r2].events[k2]
              IN (e1.summary = e2.summary /\ e1.dtstart = e2.dtstart /\ e1.dtend = e2.dtend)
                    => e1.uid = e2.uid
    /\ (RanTwice /\ cal_prev[1].sheet = cal_run[1].sheet)
          => RunUids(cal_prev[1]) = RunUids(cal_run[1])

\* Two runs at different times on the same sheet, each with two entries.
C9_Witness ==
    /\ RanTwice
    /\ cal_prev[1].sheet = cal_run[1].sheet
    /\ Len(cal_run[1].events) = 2
    /\ cal_prev[1].events[1].dtstamp # cal_run[1].events[1].dtstamp

(***************************************************************************)
(* The reminder export and the calendar export on one sheet                *)
(***************************************************************************)
BothRan == cal_run # << >> /\ reminders # << >> /\ cal_run[1].sheet = reminders[1].sheet

\* C10: on one sheet read_selected_events returns a reminder for exactly the
\* rows for which create_calendar_events makes an entry, in the same order,
\* with the entry's title and due on the start of the entry's window.
C10_ReminderWalkIsCalendarWalk ==
    BothRan =>
        /\ Len(reminders[1].events) = Len(cal_run[1].events)
        /\ \A k \in 1..Len(reminders[1].events) :
              /\ reminders[1].events[k].row_num = cal_run[1].events[k].row_num
              /\ reminders[1].events[k].title = cal_run[1].events[k].summary
              /\ reminders[1].events[k].start_date = cal_run[1].events[k].dtstart

\* Both exports read a sheet of a selected event followed by an event that is
\* not selected and has a window: one reminder, one entry.
C10_Witness ==
    /\ BothRan
    /\ Len(reminders[1].events) = 1
    /\ \E i \in 2..Len(cal_run[1].sheet) :
          /\ ~BlankOrMarker(cal_run[1].sheet[i].name)
          /\ ~IsSelected(cal_run[1].sheet[i].selected)
          /\ parse_date_range(cal_run[1].sheet[i].sign_up) # << >>

(***************************************************************************)
(* scraper.get_all_event_urls                                              *)
(*                                                                         *)
(* What a listing page gives is a record: raised, when the fetch or        *)
(* parse_listing_page raises, else the pairs (event_url, date) parsed.     *)
(***************************************************************************)
BASE_URL == "https://veranstaltungen.muenchen.de/ferienangebote-familienpass/familienpassangebote/"

TOTAL_PAGES == 4

\* The URL requested for a listing page.
PageUrl(n) == IF n = 1 THEN BASE_URL ELSE BASE_URL \o "?pno=" \o Char(Digits, n + 1)

PageRaises == [raised |-> TRUE, events |-> << >>]

PageGives(events) == [raised |-> FALSE, events |-> events]

\* The k-th pair of listing page n.
ListingPair(n, k) ==
    <<"/event/" \o Char(Digits, n + 1) \o Char(Digits, k + 1),
      TwoDigits(k) \o ".0" \o Char(Digits, n + 1) \o ".2024">>

MaxPagePairs == 2

PageOutcomes(n) ==
    {PageRaises} \cup {PageGives([k \in 1..len |-> ListingPair(n, k)]) : len \in 0..MaxPagePairs}

\* Mutant of NextPageNum: a page that raises ends the loop.
NextPageNumAbort(n, outcome) == IF outcome.raised THEN TOTAL_PAGES + 1 ELSE n + 1

\* for page_num in range(1, total_pages + 1): the page after page n.
NextPageNum(n, outcome) == n + 1

InitListing ==
    /\ listing_pages \in {pages \in [1..TOTAL_PAGES -> UNION {PageOutcomes(n) : n \in 1..TOTAL_PAGES}] :
                             \A n \in 1..TOTAL_PAGES : pages[n] \in PageOutcomes(n)}
    /\ attempt = 0
    /\ gets = 0
    /\ waits = << >>
    /\ responses = << >>
    /\ request_result = "pending"
    /\ page_num = 1
    /\ attempted = << >>
    /\ all_events = << >>
    /\ detail_outcomes = << >>
    /\ pc = "start"
    /\ exit_status = NoExit
    /\ date_str = ""
    /\ date_range = << >>
    /\ events_data = << >>
    /\ grouped_events = << >>
    /\ selections = << >>
    /\ loaded_ws = << >>
    /\ saved_ws = << >>
    /\ sheet = << >>
    /\ calendar = << >>
    /\ cal_run = << >>
    /\ cal_prev = << >>
    /\ reminders = << >>
    /\ now = 0
    /\ edits = 0
    /\ scrapes = 0

\* One turn of the loop of get_all_event_urls.
ScrapeListingPage ==
    /\ page_num <= TOTAL_PAGES
    /\ attempted' = Append(attempted, [page |-> page_num, url |-> PageUrl(page_num)])
    /\ all_events' = IF listing_pages[page_num].raised THEN all_events
                     ELSE all_events \o listing_pages[page_num].events
    /\ page_num' = NextPageNum(page_num, listing_pages[page_num])
    /\ UNCHANGED <<date_str, date_range, events_data, grouped_events, selections, loaded_ws,
                   saved_ws, sheet, calendar, cal_run, cal_prev, reminders, now, edits,
                   scrapes, responses, attempt, gets, waits, request_result, listing_pages,
                   detail_outcomes, pc, exit_status>>

NextListing == ScrapeListingPage

SpecListing == InitListing /\ [][NextListing]_vars

\* get_all_event_urls has returned all_events.
ListingReturned == page_num > TOTAL_PAGES

RECURSIVE PairsOfPages(_)
\* The pairs of the pages 1..n that did not raise, page after page.
PairsOfPages(n) ==
    IF n = 0 THEN << >>
    ELSE PairsOfPages(n - 1)
            \o (IF listing_pages[n].raised THEN << >> ELSE listing_pages[n].events)

\* C11: the pages are requested one after the other from page 1, each once,
\* whatever the earlier pages gave; a page that raises is skipped; when the
\* function returns, all TOTAL_PAGES pages have been requested and the list is
\* the pairs of the pages that did not raise, in page order.
C11_EveryListingPageAttempted ==
    /\ \A k \in 1..Len(attempted) :
          attempted[k].page = k /\ attempted[k].url = PageUrl(k)
    /\ all_events = PairsOfPages(Len(attempted))
    /\ ListingReturned => Len(attempted) = TOTAL_PAGES

\* The function has returned pairs of page 3 after page 2 raised.
C11_Witness ==
    /\ ListingReturned
    /\ listing_pages[2].raised
    /\ ~listing_pages[1].raised
    /\ Len(listing_pages[3].events) = 2
    /\ Len(all_events) > 2

(***************************************************************************)
(* scraper.main, create_calendar.main and create_reminder.main, step by    *)
(* step                                                                    *)
(*                                                                         *)
(* pc is "start" while get_all_event_urls runs, "details" in the loop over *)
(* the detail pages, "export" before step 3; after the run it is "exited"  *)
(* (the end of main), "aborted" (no event URLs) or "interrupted".          *)
(* What happens on a detail page is a record: fault "none"; fault "fetch", *)
(* make_request_with_retry raises; fault "parse" at step 0, BeautifulSoup  *)
(* raises before the try block of parse_event_page; fault "parse" at step  *)
(* 1 to 8, the numbered extraction step raises inside the try block.       *)
(***************************************************************************)
NoFault == [fault |-> "none", step |-> 0]

FetchFault == [fault |-> "fetch", step |-> 0]

ParseFault(step) == [fault |-> "parse", step |-> step]

DetailOutcomes == {NoFault, FetchFault, ParseFault(0), ParseFault(1), ParseFault(6)}

\* event_data as parse_event_page initialises it.
InitialEventData(event_url) ==
    [name |-> "", age |-> "", place |-> "", date |-> "", time |-> "", sign_up_date |-> "",
     event_url |-> event_url, description |-> ""]

\* The step of parse_event_page that sets a field.
StepOf(field) ==
    CASE field = "name" -> 1
      [] field = "age" -> 2
      [] field = "place" -> 3
      [] field = "date" -> 4
      [] field = "time" -> 5
      [] field = "sign_up_date" -> 6
      [] field = "description" -> 8
      [] OTHER -> 0

\* What parse_event_page returns when the given step raises: its except
\* clause prints a warning, and the fields set so far are returned.
parse_event_page_raising(page, event_url, step) ==
    [field \in DOMAIN InitialEventData(event_url) |->
        IF StepOf(field) < step THEN parse_event_page(page, event_url)[field]
        ELSE InitialEventData(event_url)[field]]

\* scrape_event_details with what happens on the page.
scrape_event_details_with(outcome, event_url, listing_date) ==
    IF outcome.fault = "none" THEN scrape_event_details(Fetch(event_url), event_url, listing_date)
    ELSE IF outcome.fault = "fetch" \/ outcome.step = 0 THEN ErrorRecord(event_url, listing_date)
    ELSE LET event_data == parse_event_page_raising(Fetch(event_url)[1], event_url, outcome.step)
         IN IF event_data.date = "" /\ listing_date # ""
            THEN [event_data EXCEPT !.date = listing_date]
            ELSE event_data

MainUrls == {"/event/42", "/event/44"}

\* What get_all_event_urls can return in a step-by-step run.
MainListings ==
    {[i \in 1..Len(urls) |-> <<urls[i], ListingDate(urls[i])>>] :
        urls \in {l \in Listings : \A i \in 1..Len(l) : l[i] \in MainUrls}}

\* A sheet of an earlier run, with a mark of the user.
OldSheet ==
    [save_to_excel(<<ScrapedDetails["/event/42"]>>, << >>) EXCEPT ![1].selected = Txt("X")]

InitMain ==
    /\ DateIdle
    /\ events_data = << >>
    /\ grouped_events = << >>
    /\ selections = << >>
    /\ loaded_ws = << >>
    /\ saved_ws = << >>
    /\ sheet \in {<< >>, OldSheet}
    /\ calendar = << >>
    /\ cal_run = << >>
    /\ cal_prev = << >>
    /\ reminders = << >>
    /\ now = 0
    /\ edits = 0
    /\ scrapes = 0
    /\ RunIdle

\* Step 1 of scraper.main: get_all_event_urls returns event_urls.
CollectUrls(event_urls) ==
    /\ pc = "start"
    /\ all_events' = event_urls
    /\ IF event_urls = << >>
       THEN pc' = "aborted" /\ exit_status' = [exit_status EXCEPT !.scraper = <<1>>]
       ELSE pc' = "details" /\ UNCHANGED exit_status
    /\ UNCHANGED <<date_str, date_range, events_data, grouped_events, selections, loaded_ws,
                   saved_ws, sheet, calendar, cal_run, cal_prev, reminders, now, edits,
                   scrapes, responses, attempt, gets, waits, request_result, listing_pages,
                   page_num, attempted, detail_outcomes>>

\* Step 2 of scraper.main: one turn of the loop over event_urls.
ScrapeEvent(outcome) ==
    /\ pc = "details"
    /\ LET idx == Len(events_data) + 1
       IN /\ events_data' = Append(events_data,
                 scrape_event_details_with(outcome, all_events[idx][1], all_events[idx][2]))
          /\ pc' = IF idx < Len(all_events) THEN "details" ELSE "export"
    /\ detail_outcomes' = Append(detail_outcomes, outcome)
    /\ UNCHANGED <<date_str, date_range, grouped_events, selections, loaded_ws,
                   saved_ws, sheet, calendar, cal_run, cal_prev, reminders, now, edits,
                   scrapes, responses, attempt, gets, waits, request_result, listing_pages,
                   page_num, attempted, all_events, exit_status>>

\* Step 3 of scraper.main: load_existing_selections, save_to_excel, the end.
ExportSheet ==
    /\ pc = "export"
    /\ selections' = load_existing_selections(sheet)
    /\ loaded_ws' = sheet
    /\ grouped_events' = group_events_by_name(events_data)
    /\ saved_ws' = save_to_excel(events_data, load_existing_selections(sheet))
    /\ sheet' = save_to_excel(events_data, load_existing_selections(sheet))
    /\ scrapes' = scrapes + 1
    /\ pc' = "exited"
    /\ exit_status' = [exit_status EXCEPT !.scraper = <<0>>]
    /\ UNCHANGED <<date_str, date_range, events_data, calendar, cal_run, cal_prev, reminders,
                   now, edits, responses, attempt, gets, waits, request_result,
                   listing_pages, page_num, attempted, all_events, detail_outcomes>>

\* Mutant of SheetAfterInterrupt: the handler saves what has been scraped.
SheetAfterInterruptFlushed(old_sheet, scraped) ==
    IF scraped = << >> THEN old_sheet ELSE save_to_excel(scraped, << >>)

\* The sheet file after the except KeyboardInterrupt clause of scraper.main.
SheetAfterInterrupt(old_sheet, scraped) == old_sheet

\* The user interrupts scraper.main before step 3: sys.exit(0).
Interrupt ==
    /\ pc \in {"start", "details", "export"}
    /\ sheet' = SheetAfterInterrupt(sheet, events_data)
    /\ pc' = "interrupted"
    /\ exit_status' = [exit_status EXCEPT !.scraper = <<0>>]
    /\ UNCHANGED <<date_str, date_range, events_data, grouped_events, selections, loaded_ws,
                   saved_ws, calendar, cal_run, cal_prev, reminders, now, edits,
                   scrapes, responses, attempt, gets, waits, request_result, listing_pages,
                   page_num, attempted, all_events, detail_outcomes>>

\* create_calendar.main, from start to end: it returns when the sheet is
\* missing, and it returns after create_calendar_events.
CalendarMain ==
    /\ exit_status.calendar = << >>
    /\ IF sheet = << >>
       THEN UNCHANGED <<calendar, cal_run, cal_prev, now>>
       ELSE LET result == create_calendar_events(sheet, now)
            IN /\ cal_prev' = cal_run
               /\ cal_run' = <<[sheet |-> sheet, events |-> result.events,
                                events_skipped |-> result.skipped]>>
               /\ calendar' = IF Len(result.events) > 0 THEN result.events ELSE calendar
               /\ now' = now + 1
    /\ exit_status' = [exit_status EXCEPT !.calendar = <<0>>]
    /\ UNCHANGED <<date_str, date_range, events_data, grouped_events, selections, loaded_ws,
                   saved_ws, sheet, reminders, edits, scrapes, responses, attempt, gets,
                   waits, request_result, listing_pages, page_num, attempted, all_events,
                   detail_outcomes, pc>>

\* create_reminder.main with --dry-run, from start to end.
ReminderMain ==
    /\ exit_status.reminder = << >>
    /\ IF sheet = << >>
       THEN UNCHANGED reminders
       ELSE reminders' = <<[sheet |-> sheet, events |-> read_selected_events(sheet)]>>
    /\ exit_status' = [exit_status EXCEPT !.reminder = <<0>>]
    /\ UNCHANGED <<date_str, date_range, events_data, grouped_events, selections, loaded_ws,
                   saved_ws, sheet, calendar, cal_run, cal_prev, now, edits, scrapes,
                   responses, attempt, gets, waits, request_result, listing_pages, page_num,
                   attempted, all_events, detail_outcomes, pc>>

NextMain ==
    \/ \E event_urls \in MainListings : CollectUrls(event_urls)
    \/ \E outcome \in DetailOutcomes : ScrapeEvent(outcome)
    \/ ExportSheet
    \/ Interrupt
    \/ CalendarMain
    \/ ReminderMain

SpecMain == InitMain /\ [][NextMain]_vars

\* The text begins with the prefix.
StartsWith(text, prefix) ==
    Len(text) >= Len(prefix) /\ SubSeq(text, 1, Len(prefix)) = prefix

\* The record carries an error marker in its name or its description.
HasErrorMarker(record) ==
    StartsWith(record.name, "ERROR") \/ StartsWith(record.description, "Scraping failed")

\* C12: events_data holds one record per listing pair scraped so far, in
\* listing order; the record of a detail page whose fetch or parse failed
\* carries an error marker in its name or description; and the export is
\* reached only with a record for every listing pair.
C12_FaultsBecomePlaceholders ==
    /\ Len(events_data) = Len(detail_outcomes)
    /\ Len(events_data) <= Len(all_events)
    /\ \A i \in 1..Len(events_data) :
          /\ events_data[i].event_url = all_events[i][1]
          /\ detail_outcomes[i].fault # "none" => HasErrorMarker(events_data[i])
    /\ (pc = "export" \/ saved_ws # << >>) => Len(events_data) = Len(all_events)

(***************************************************************************)
(* utils.make_request_with_retry                                           *)
(*                                                                         *)
(* What the server does at a GET: "ok"; "timeout" (requests Timeout);      *)
(* "http429", "http503", "http404" (raise_for_status raises HTTPError);    *)
(* "network" (another RequestException).                                   *)
(***************************************************************************)
MAX_RETRIES == 3

INITIAL_BACKOFF == 2

GetOutcomes == {"ok", "timeout", "http429", "http503", "http404", "network"}

\* Mutant of Succeeds: raise_for_status is not called.
SucceedsWithoutStatusCheck(outcome) == outcome \in {"ok", "http429", "http503", "http404"}

\* requests.get and response.raise_for_status() do not raise.
Succeeds(outcome) == outcome = "ok"

\* The except clause goes on to the next attempt.
Retries(outcome, n) ==
    /\ outcome \in {"timeout", "http429", "http503", "network"}
    /\ n < MAX_RETRIES - 1

\* The time.sleep calls of the except clause at attempt n.
SleepsAfter(outcome, n) ==
    CASE outcome = "timeout" ->
           IF n < MAX_RETRIES - 1 THEN <<INITIAL_BACKOFF * (2 ^ n)>> ELSE << >>
      [] outcome \in {"http429", "http503"} -> <<INITIAL_BACKOFF * 2>>
      [] outcome = "network" ->
           IF n < MAX_RETRIES - 1 THEN <<INITIAL_BACKOFF>> ELSE << >>
      [] OTHER -> << >>

InitRetry ==
    /\ responses \in [1..MAX_RETRIES -> GetOutcomes]
    /\ attempt = 0
    /\ gets = 0
    /\ waits = << >>
    /\ request_result = "pending"
    /\ listing_pages = << >>
    /\ page_num = 1
    /\ attempted = << >>
    /\ all_events = << >>
    /\ detail_outcomes = << >>
    /\ pc = "start"
    /\ exit_status = NoExit
    /\ DateIdle
    /\ events_data = << >>
    /\ grouped_events = << >>
    /\ selections = << >>
    /\ loaded_ws = << >>
    /\ saved_ws = << >>
    /\ sheet = << >>
    /\ calendar = << >>
    /\ cal_run = << >>
    /\ cal_prev = << >>
    /\ reminders = << >>
    /\ now = 0
    /\ edits = 0
    /\ scrapes = 0

\* One turn of the loop: a GET, then return, retry after sleeping, or raise.
GetAttempt ==
    /\ request_result = "pending"
    /\ attempt < MAX_RETRIES
    /\ responses # << >>
    /\ gets' = gets + 1
    /\ waits' = waits \o SleepsAfter(responses[attempt + 1], attempt)
    /\ IF Succeeds(responses[attempt + 1])
       THEN request_result' = "returned" /\ UNCHANGED attempt
       ELSE IF Retries(responses[attempt + 1], attempt)
       THEN attempt' = attempt + 1 /\ UNCHANGED request_result
       ELSE request_result' = "raised" /\ UNCHANGED attempt
    /\ UNCHANGED <<date_str, date_range, events_data, grouped_events, selections, loaded_ws,
                   saved_ws, sheet, calendar, cal_run, cal_prev, reminders, now, edits,
                   scrapes, responses, listing_pages, page_num, attempted, all_events,
                   detail_outcomes, pc, exit_status>>

NextRetry == GetAttempt

SpecRetry == InitRetry /\ [][NextRetry]_vars

\* C13: at most MAX_RETRIES GETs are made; while the call is under way a
\* further attempt is left; it returns only the response of a GET that
\* succeeded, the first one, and makes no GET after it; it raises only when
\* no GET succeeded.
C13_RetryTerminates ==
    /\ gets <= MAX_RETRIES
    /\ request_result = "pending" => gets = attempt /\ attempt < MAX_RETRIES
    /\ request_result = "returned" =>
          /\ gets >= 1
          /\ responses[gets] = "ok"
          /\ \A j \in 1..(gets - 1) : responses[j] # "ok"
    /\ request_result = "raised" =>
          /\ gets >= 1
          /\ \A j \in 1..gets : responses[j] # "ok"

\* The third GET succeeded after a timeout and a busy server.
C13_Witness ==
    /\ request_result = "returned"
    /\ gets = MAX_RETRIES
    /\ responses[1] = "timeout"
    /\ responses[2] = "http503"

\* The kind of transient fault.
FaultKind(outcome) ==
    CASE outcome = "timeout" -> "timeout"
      [] outcome \in {"http429", "http503"} -> "busy"
      [] outcome = "network" -> "network"
      [] OTHER -> "none"

\* C14: when the faults so far are of one kind, whichever it is, the wait
\* before each retry is strictly longer than the wait before the retry before.
C14_BackoffGrows ==
    (\A j, k \in 1..attempt : FaultKind(responses[j]) = FaultKind(responses[k]))
        => \A k \in 1..(attempt - 1) : waits[k] < waits[k + 1]

(***************************************************************************)
(* How the programs end                                                    *)
(***************************************************************************)
\* The program has ended with a status other than 0.
ExitedNonZero(program) == exit_status[program] # << >> /\ exit_status[program][1] # 0

\* C15: the scraper that collected no listing URL ends with a non-zero status,
\* having scraped no detail page and written no sheet; the calendar step and
\* the reminder step that found no sheet file end with a non-zero status.
C15_FatalFaultsExitNonZero ==
    /\ pc = "aborted" =>
          /\ ExitedNonZero("scraper")
          /\ events_data = << >>
          /\ detail_outcomes = << >>
          /\ saved_ws = << >>
    /\ (exit_status.calendar # << >> /\ cal_run = << >>) => ExitedNonZero("calendar")
    /\ (exit_status.reminder # << >> /\ reminders = << >>) => ExitedNonZero("reminder")

\* C16: a step of the scraper reads or writes the sheet only at the export,
\* when every listing pair has its record; an interrupt ends the run and
\* leaves the sheet as it was.
C16_NothingFlushedBeforeExport ==
    [][/\ (sheet' # sheet \/ loaded_ws' # loaded_ws \/ saved_ws' # saved_ws) =>
             /\ pc = "export"
             /\ pc' = "exited"
             /\ Len(all_events) > 0
             /\ Len(events_data) = Len(all_events)
       /\ pc' = "interrupted" => sheet' = sheet /\ exit_status'.scraper # << >>]_vars

\* The run was interrupted after a detail page had been scraped, and the
\* sheet of the earlier run still holds the user's mark.
C16_Witness ==
    /\ pc = "interrupted"
    /\ Len(events_data) >= 1
    /\ sheet = OldSheet
    /\ sheet[1].selected = Txt("X")

(***************************************************************************)
(* The primary rows of the saved sheet and their readers                   *)
(***************************************************************************)
\* C17: every primary row save_to_excel wrote is a main row for its readers:
\* load_existing_selections reads a name in it, the walks of the calendar and
\* of the reminder export do not take it for a continuation row, and an entry
\* made from a row of the sheet bears the name of the row's own event.
C17_PrimaryRowsAreMainRows ==
    /\ Rescraped =>
          \A i \in PrimaryRows :
              /\ saved_ws[i].name # ""
              /\ ~cal_is_continuation(saved_ws[i].name)
              /\ ~rem_is_continuation(saved_ws[i].name)
    /\ RanOnSavedSheet =>
          \A k \in 1..Len(cal_run[1].events) :
              cal_run[1].events[k].summary
                  = SummaryPrefix \o grouped_events[PrimaryRowOf(cal_run[1].events[k].row_num)].name

(***************************************************************************)
(* group_events_by_name: what becomes of each occurrence                   *)
(***************************************************************************)
\* The rows of grouped_events made from the occurrence with that URL.
RowsOf(event_url) == {k \in 1..Len(grouped_events) : grouped_events[k].event_url = event_url}

\* The names among the scraped occurrences.
InputNames == {events_data[i].name : i \in 1..Len(events_data)}

\* C18: group_events_by_name neither drops nor duplicates an occurrence: the
\* result has one row per input occurrence and one primary row per distinct
\* name; every row keeps the event_url, date, time and sign_up_date of its
\* occurrence, a primary row also its description, age and place, and a
\* continuation row has these three empty.
C18_GroupingKeepsOccurrences ==
    Grouped =>
        /\ Len(grouped_events) = Len(events_data)
        /\ \A i \in 1..Len(events_data) : Cardinality(RowsOf(events_data[i].event_url)) = 1
        /\ \A n \in InputNames :
               Cardinality({k \in PrimaryRows : grouped_events[k].name = n}) = 1
        /\ \A k \in 1..Len(grouped_events) :
               LET row == grouped_events[k]
                   event == events_data[InputIndex(row)]
               IN /\ row.name = event.name
                  /\ row.date = event.date
                  /\ row.time = event.time
                  /\ row.sign_up_date = event.sign_up_date
                  /\ IF row.is_continuation
                        THEN row.description = "" /\ row.age = "" /\ row.place = ""
                        ELSE /\ row.description = event.description
                             /\ row.age = event.age
                             /\ row.place = event.place

\* Three occurrences of two names; the group of two was reordered by date, so
\* that its later-scraped occurrence is the primary row.
C18_Witness ==
    /\ Grouped
    /\ Len(events_data) = 3
    /\ Cardinality(InputNames) = 2
    /\ \E k \in 1..Len(grouped_events) :
           /\ grouped_events[k].is_continuation
           /\ InputIndex(grouped_events[k]) < InputIndex(grouped_events[PrimaryRowOf(k)])
           /\ grouped_events[k].sign_up_date # grouped_events[PrimaryRowOf(k)].sign_up_date

(***************************************************************************)
(* The calendar of an event with several dates                             *)
(*                                                                         *)
(* The sheet is the one a scraper run has saved for up to MaxOccurrences   *)
(* detail pages; an event that takes place on several dates has one page   *)
(* per date, and the pages may state the same lottery period.  The user    *)
(* then marks rows and create_calendar.main is run.                        *)
(***************************************************************************)
MaxOccurrences == 2

\* The lottery periods the pages state.
LotteryPeriods == {"01.05.2024 - 10.05.2024", "02.05.2024 - 09.05.2024"}

\* The dates the occurrences take place on.
OccurrenceDates == {"15.06.2024", "22.06.2024"}

\* What scrape_event_details has returned for the pages of the listing.
CalendarInputs ==
    UNION {{[i \in 1..n |-> [Occurrence(i, f[i][1], f[i][2]) EXCEPT !.sign_up_date = f[i][3]]] :
              f \in [1..n -> GroupNames \X OccurrenceDates \X LotteryPeriods]} :
           n \in 1..MaxOccurrences}

\* The state after scraper.main has saved its first sheet.
InitCalendar ==
    /\ DateIdle
    /\ events_data \in CalendarInputs
    /\ grouped_events = group_events_by_name(events_data)
    /\ selections = load_existing_selections(<< >>)
    /\ loaded_ws = << >>
    /\ saved_ws = save_to_excel(events_data, selections)
    /\ sheet = saved_ws
    /\ calendar = << >>
    /\ cal_run = << >>
    /\ cal_prev = << >>
    /\ reminders = << >>
    /\ now = 0
    /\ edits = 0
    /\ scrapes = 1
    /\ RunIdle

NextCalendar ==
    \/ \E row_num \in 1..MaxOccurrences, value \in EditValues : UserEdit(row_num, value)
    \/ CalendarRun

SpecCalendar == InitCalendar /\ [][NextCalendar]_vars

\* C19: the entries of one calendar have pairwise different identifiers, also
\* the entries made from the primary row and from a continuation row of one
\* chosen event.
C19_UidsDistinctWithinCalendar ==
    CalendarRan =>
        \A a, b \in 1..Len(cal_run[1].events) :
            a # b => cal_run[1].events[a].uid # cal_run[1].events[b].uid

====
